---- MODULE Spec2Model ----
(***************************************************************************)
(* A model of the street-alignment pipeline of sun-map:                    *)
(*   - the geometry kernel (src/src/utils/geometry.js): alignment score,   *)
(*     circular bearing difference, distance, bearing;                     *)
(*   - the segment batcher (processStreetSegments, batchStraightSegments,  *)
(*     createBidirectionalBatch, createRepresentativeSegment).             *)
(*   - the services around them: processOsmData and fetchStreetData       *)
(*     (src/src/modules/streets.js), the Cache (src/src/utils/cache.js),   *)
(*     the optimal-day search and the heatmap scorer                       *)
(*     (src/src/modules/heatmap.js).                                       *)
(*                                                                         *)
(* Numbers.  Bearings and azimuths are whole degrees.  The alignment score *)
(* 1 - normalizedDiff/90 is kept as the integer 90 * score.  Bearings that *)
(* the batcher averages are exact fractions [n, d] in lowest terms.        *)
(* Points lie on one meridian (lon = 0) and lat is counted in units of the *)
(* arc that is one metre long: on a meridian the haversine distance is     *)
(* exactly R * |lat2 - lat1| and the forward azimuth is exactly 0 or 180.  *)
(***************************************************************************)
EXTENDS Integers, Sequences, FiniteSets, TLC

VARIABLES
    pc,               \* position of the behaviour in the subsystem it exercises
    streetBearing,    \* calculateStreetAlignment: first argument
    sunAzimuth,       \* calculateStreetAlignment: second argument
    alignmentScore,   \* 90 * the value calculateStreetAlignment returned
    osmWay,           \* the OSM way handed to processStreetSegments, or NoWay
    segments,         \* the unit segments handed to batchStraightSegments
    config,           \* CONFIG.streets.batching as passed to the batcher
    batches,          \* the batches createBidirectionalBatch returned, with their seed
    batchedResults,   \* what batchStraightSegments returned
    rebatchedResults, \* what batchStraightSegments returned on its own output
    osmData,          \* the parsed Overpass response handed to processOsmData
    streetSegments,   \* what processOsmData returned
    scanResults,      \* findLocalMaxima: the results array it is handed
    localMaxima,      \* what findLocalMaxima returned
    optimalResult,    \* the result object built from localMaxima
    sky,              \* what SunCalc answers for each day of a year
    query,            \* the optimal-day call made last: entry point and arguments
    optimalCache,     \* OptimalDayCalculator.cache: cacheKey -> optimalResult
    solarCache,       \* SolarCalculator.cache: cacheKey -> azimuth
    completedQueries, \* what each completed call returned first, by call
    daysScanned,      \* iterations of the day loop in the call made last
    queryCount,       \* optimal-day calls made so far
    streetCache,      \* a Cache: maxSize and the entries of its Map, in Map order
    now,              \* Date.now()
    useOrder,         \* its keys, least recently used (get or set) first
    lastSet,          \* the last Cache.set: what it evicted at capacity
    calls,            \* the fetchStreetData calls made, in order, with their state
    abortController,  \* StreetDataManager.abortController: the call that made it, or 0
    isLoading,        \* StreetDataManager.isLoading
    calculationCache, \* the Cache of alignment scores, as streetCache
    currentSunAzimuth,\* HeatmapManager.currentSunAzimuth: <<>> for null, or <<azimuth>>
    scoredSegments,   \* the list calculateAlignmentScores returned, held by its caller
    listBefore,       \* that list as it was when the caller passed it to a helper view
    viewResult,       \* the helper view called on it and what the view returned
    scoreCalls        \* calculateAlignmentScores calls made so far

vars == <<pc, streetBearing, sunAzimuth, alignmentScore, osmWay, segments,
          config, batches, batchedResults, rebatchedResults,
          osmData, streetSegments, scanResults, localMaxima, optimalResult,
          sky, query, optimalCache, solarCache, completedQueries, daysScanned,
          queryCount, streetCache, now, useOrder, lastSet,
          calls, abortController, isLoading,
          calculationCache, currentSunAzimuth, scoredSegments, listBefore,
          viewResult, scoreCalls>>

alignVars == <<streetBearing, sunAzimuth, alignmentScore>>
batchVars == <<osmWay, segments, config, batches, batchedResults, rebatchedResults>>
osmVars == <<osmData, streetSegments>>
maximaVars == <<scanResults, localMaxima, optimalResult>>
dayVars == <<sky, query, optimalCache, solarCache, completedQueries, daysScanned,
             queryCount>>

\* The variables of the services built around the geometry kernel.
cacheVars == <<streetCache, now, useOrder, lastSet>>
fetchVars == <<calls, abortController, isLoading>>
heatmapVars == <<calculationCache, currentSunAzimuth, scoredSegments, listBefore,
                 viewResult, scoreCalls>>
serviceVars == <<osmVars, maximaVars, dayVars, cacheVars, fetchVars, heatmapVars>>

-----------------------------------------------------------------------------
(* Arithmetic helpers *)

Abs(x) == IF x < 0 THEN -x ELSE x
Min(x, y) == IF x <= y THEN x ELSE y
Max(x, y) == IF x >= y THEN x ELSE y

FullCircle == 360
HalfCircle == 180
QuarterCircle == 90

Degrees == 0 .. (FullCircle - 1)

-----------------------------------------------------------------------------
(* Geometry kernel: alignment score *)

\* The variant of calculateStreetAlignment that forgets the antiparallel case
\* (bidirectionalDiff = angleDiff).
calculateStreetAlignment_NoBidirectional(bearing, azimuth) ==
    LET angleDiff == Abs(bearing - azimuth)
        normalizedDiff == Min(angleDiff, FullCircle - angleDiff)
    IN  QuarterCircle - normalizedDiff

\* geometry.js calculateStreetAlignment, times 90:
\*   angleDiff = |streetBearing - sunAzimuth|
\*   bidirectionalDiff = min(angleDiff, |angleDiff - 180|)
\*   normalizedDiff = min(bidirectionalDiff, 360 - bidirectionalDiff)
\*   return 1 - normalizedDiff / 90
calculateStreetAlignment(bearing, azimuth) ==
    LET angleDiff == Abs(bearing - azimuth)
        bidirectionalDiff == Min(angleDiff, Abs(angleDiff - HalfCircle))
        normalizedDiff == Min(bidirectionalDiff, FullCircle - bidirectionalDiff)
    IN  QuarterCircle - normalizedDiff

\* The angle in [0,90] between the two undirected lines of bearings a and z.
LineAngle(a, z) ==
    LET d == Abs(a - z) % HalfCircle
    IN  Min(d, HalfCircle - d)

-----------------------------------------------------------------------------
(* Idle values of the variables a subsystem does not use *)

NoWay == [id |-> 0, geometry |-> <<>>, highway |-> "none"]
NoConfig == [bearingTolerance |-> 0, minBatchLength |-> 0,
             maxBearingDrift |-> 0, requireBatching |-> FALSE]
NoScore == "undefined"

AlignIdle ==
    /\ streetBearing = 0
    /\ sunAzimuth = 0
    /\ alignmentScore = NoScore

BatchIdle ==
    /\ osmWay = NoWay
    /\ segments = <<>>
    /\ config = NoConfig
    /\ batches = <<>>
    /\ batchedResults = <<>>
    /\ rebatchedResults = <<>>

NoOsmData == [hasElements |-> FALSE, elements |-> <<>>]

OsmIdle ==
    /\ osmData = NoOsmData
    /\ streetSegments = <<>>

\* bestDay: localMaxima[0] || null when there is no local maximum.
NoDay == [dayOfYear |-> 0]

NoResult == [bestDay |-> NoDay, topDays |-> <<>>, totalLocalMaxima |-> 0]

MaximaIdle ==
    /\ scanResults = <<>>
    /\ localMaxima = <<>>
    /\ optimalResult = NoResult

\* A sky under which every sunrise and sunset is computed.
ClearSky == [failFrom |-> 1, failTo |-> 0, kind |-> "none", both |-> FALSE]

NoQuery ==
    [method |-> "none", streetBearing |-> 0, year |-> 0,
     includeSunrise |-> FALSE, includeSunset |-> FALSE]

EmptyMap == [k \in {} |-> 0]

DayIdle ==
    /\ sky = ClearSky
    /\ query = NoQuery
    /\ optimalCache = EmptyMap
    /\ solarCache = EmptyMap
    /\ completedQueries = EmptyMap
    /\ daysScanned = 0
    /\ queryCount = 0

\* export const streetCache = new Cache(50)
StreetCacheSize == 50

NoKey == "undefined"

NoSet == [atCapacity |-> FALSE, evicted |-> NoKey, leastRecentlyUsed |-> NoKey]

\* new Cache(maxSize)
NewCache(maxSize) == [maxSize |-> maxSize, entries |-> <<>>]

CacheIdle ==
    /\ streetCache = NewCache(StreetCacheSize)
    /\ now = 0
    /\ useOrder = <<>>
    /\ lastSet = NoSet

\* StreetDataManager constructor: isLoading = false, abortController = null.
FetchIdle ==
    /\ calls = <<>>
    /\ abortController = 0
    /\ isLoading = FALSE

\* calculationCache = new Cache(100)
CalculationCacheSize == 100

NoView == [view |-> "none", result |-> <<>>]

\* HeatmapManager constructor: currentSunAzimuth = null; nothing scored yet.
HeatmapIdle ==
    /\ calculationCache = NewCache(CalculationCacheSize)
    /\ currentSunAzimuth = <<>>
    /\ scoredSegments = <<>>
    /\ listBefore = <<>>
    /\ viewResult = NoView
    /\ scoreCalls = 0

ServiceIdle ==
    OsmIdle /\ MaximaIdle /\ DayIdle /\ CacheIdle /\ FetchIdle /\ HeatmapIdle

-----------------------------------------------------------------------------
(* Alignment: one call of calculateStreetAlignment on a pair of bearings *)

AlignInit ==
    /\ pc = "align"
    /\ streetBearing \in Degrees
    /\ sunAzimuth \in Degrees
    /\ alignmentScore = NoScore
    /\ BatchIdle
    /\ ServiceIdle

CalculateStreetAlignment ==
    /\ pc = "align"
    /\ alignmentScore' = calculateStreetAlignment(streetBearing, sunAzimuth)
    /\ pc' = "scored"
    /\ UNCHANGED <<streetBearing, sunAzimuth>>
    /\ UNCHANGED batchVars
    /\ UNCHANGED serviceVars

AlignNext == CalculateStreetAlignment

SpecAlign == AlignInit /\ [][AlignNext]_vars

-----------------------------------------------------------------------------
(* Claims about the alignment score *)

\* C1: for every pair of bearings in [0,360) the score returned by
\* calculateStreetAlignment lies in [0,1] (here 0 <= 90*score <= 90).
C1_ScoreInUnitInterval ==
    pc = "scored" => (0 <= alignmentScore /\ alignmentScore <= QuarterCircle)

\* C2: the score treats the street as bidirectional: the score of (a, z) equals
\* the score of ((a+180) mod 360, z), and it is 1 - delta/90 with delta the
\* angle between the two undirected lines.
C2_Bidirectional ==
    pc = "scored" =>
        /\ alignmentScore =
              calculateStreetAlignment((streetBearing + HalfCircle) % FullCircle, sunAzimuth)
        /\ alignmentScore = QuarterCircle - LineAngle(streetBearing, sunAzimuth)

\* C3: for every bearing t the score of (t, t) is 1, of (t, (t+180) mod 360)
\* is 1, and of (t, (t+90) mod 360) is 0, also when the raw difference is 270.
C3_ParallelAntiparallelPerpendicular ==
    pc = "scored" =>
        /\ (sunAzimuth = streetBearing => alignmentScore = QuarterCircle)
        /\ (sunAzimuth = (streetBearing + HalfCircle) % FullCircle
                => alignmentScore = QuarterCircle)
        /\ (sunAzimuth = (streetBearing + QuarterCircle) % FullCircle
                => alignmentScore = 0)

\* C3 witness: a perpendicular pair whose raw absolute difference is 270.
C3_Witness ==
    /\ pc = "scored"
    /\ streetBearing = 300
    /\ sunAzimuth = (streetBearing + QuarterCircle) % FullCircle
    /\ Abs(streetBearing - sunAzimuth) = 270
    /\ alignmentScore = 0

-----------------------------------------------------------------------------
(* Exact fractions: a bearing the batcher handles is [n |-> numerator,      *)
(* d |-> denominator > 0] in lowest terms, so equal values are equal records *)

RECURSIVE GCD(_, _)
GCD(a, b) == IF b = 0 THEN a ELSE GCD(b, a % b)

Rat(n, d) ==
    LET g == GCD(Abs(n), d)
    IN  [n |-> n \div g, d |-> d \div g]

FromInt(i) == [n |-> i, d |-> 1]
RAdd(x, y) == Rat(x.n * y.d + y.n * x.d, x.d * y.d)
RSub(x, y) == Rat(x.n * y.d - y.n * x.d, x.d * y.d)
RAbs(x) == [n |-> Abs(x.n), d |-> x.d]
RScale(x, k) == Rat(x.n * k, x.d)
RDivInt(x, k) == Rat(x.n, x.d * k)
RLe(x, y) == x.n * y.d <= y.n * x.d
RLt(x, y) == x.n * y.d < y.n * x.d
RMin(x, y) == IF RLe(x, y) THEN x ELSE y

-----------------------------------------------------------------------------
(* Geometry kernel: points, distance, bearing, bearing difference *)

Point(lat) == [lat |-> lat, lon |-> 0]

\* geometry.js calculateDistance (haversine) for two points of one meridian:
\* deltaLon = 0, so a = sin^2(deltaLat/2), c = |deltaLat| and R * c is the
\* length of the meridian arc, |lat2 - lat1| in the model's unit of lat.
calculateDistance(point1, point2) == Abs(point2.lat - point1.lat)

\* geometry.js calculateBearing for two points of one meridian: x = 0 and
\* y = sin(lat2 - lat1), so atan2(x, y) is 0 (north, or equal points) or pi.
calculateBearing(point1, point2) ==
    IF point2.lat < point1.lat THEN HalfCircle ELSE 0

\* geometry.js calculateBearingDifference: min(|b1 - b2|, 360 - |b1 - b2|).
calculateBearingDifference(bearing1, bearing2) ==
    LET diff == RAbs(RSub(bearing1, bearing2))
    IN  RMin(diff, RSub(FromInt(FullCircle), diff))

-----------------------------------------------------------------------------
(* Segment batcher.  Indices are the code's 0-based indices; segments[i] of  *)
(* the code is At(segments, i).                                              *)

At(segs, i) == segs[i + 1]

\* The id `${osmId}_${segmentIndex}` under which a segment is marked processed.
SegmentId(seg) == <<seg.osmId, seg.segmentIndex>>

\* processStreetSegments with 1-based segmentIndex.
processStreetSegments_OneBased(way) ==
    [i \in 1 .. (Len(way.geometry) - 1) |->
        [start |-> way.geometry[i],
         end |-> way.geometry[i + 1],
         bearing |-> FromInt(calculateBearing(way.geometry[i], way.geometry[i + 1])),
         osmId |-> way.id,
         highway |-> way.highway,
         segmentIndex |-> i]]

\* geometry.js processStreetSegments: one unit segment per pair of consecutive
\* vertices, for (i = 0; i < geometry.length - 1; i++).
processStreetSegments(way) ==
    [i \in 1 .. (Len(way.geometry) - 1) |->
        [start |-> way.geometry[i],
         end |-> way.geometry[i + 1],
         bearing |-> FromInt(calculateBearing(way.geometry[i], way.geometry[i + 1])),
         osmId |-> way.id,
         highway |-> way.highway,
         segmentIndex |-> i - 1]]

\* Variants of the extension test of createBidirectionalBatch.
ExtendOk_NoTolerance(bearingDiff, newTotalDrift, bearingTolerance, maxBearingDrift) ==
    RLe(newTotalDrift, FromInt(maxBearingDrift))
ExtendOk_NoDrift(bearingDiff, newTotalDrift, bearingTolerance, maxBearingDrift) ==
    RLe(bearingDiff, FromInt(bearingTolerance))
ExtendOk_Strict(bearingDiff, newTotalDrift, bearingTolerance, maxBearingDrift) ==
    /\ RLt(bearingDiff, FromInt(bearingTolerance))
    /\ RLe(newTotalDrift, FromInt(maxBearingDrift))

\* createBidirectionalBatch, the test of both while loops:
\*   bearingDiff <= bearingTolerance && newTotalDrift <= maxBearingDrift
ExtendOk(bearingDiff, newTotalDrift, bearingTolerance, maxBearingDrift) ==
    /\ RLe(bearingDiff, FromInt(bearingTolerance))
    /\ RLe(newTotalDrift, FromInt(maxBearingDrift))

\* createBidirectionalBatch, "Batch forward": the while loop from currentIndex
\* with the drift accumulated so far; returns the batch it leaves.
RECURSIVE BatchForward(_, _, _, _, _, _, _)
BatchForward(batch, currentIndex, totalDrift, segs, referenceBearing, bearingTolerance, maxBearingDrift) ==
    IF currentIndex + 1 < Len(segs)
    THEN LET nextSegment == At(segs, currentIndex + 1)
             bearingDiff == calculateBearingDifference(referenceBearing, nextSegment.bearing)
             newTotalDrift == RAdd(totalDrift, bearingDiff)
         IN  IF ExtendOk(bearingDiff, newTotalDrift, bearingTolerance, maxBearingDrift)
             THEN BatchForward(
                      [batch EXCEPT !.constituents = Append(@, currentIndex + 1),
                                    !.endIndex = currentIndex + 1],
                      currentIndex + 1, newTotalDrift, segs, referenceBearing,
                      bearingTolerance, maxBearingDrift)
             ELSE batch
    ELSE batch

\* createBidirectionalBatch, "Batch backward": the second while loop.
RECURSIVE BatchBackward(_, _, _, _, _, _, _)
BatchBackward(batch, currentIndex, totalDrift, segs, referenceBearing, bearingTolerance, maxBearingDrift) ==
    IF currentIndex - 1 >= 0
    THEN LET prevSegment == At(segs, currentIndex - 1)
             bearingDiff == calculateBearingDifference(referenceBearing, prevSegment.bearing)
             newTotalDrift == RAdd(totalDrift, bearingDiff)
         IN  IF ExtendOk(bearingDiff, newTotalDrift, bearingTolerance, maxBearingDrift)
             THEN BatchBackward(
                      [batch EXCEPT !.constituents = <<currentIndex - 1>> \o @,
                                    !.startIndex = currentIndex - 1],
                      currentIndex - 1, newTotalDrift, segs, referenceBearing,
                      bearingTolerance, maxBearingDrift)
             ELSE batch
    ELSE batch

\* geometry.js createBidirectionalBatch: forward from the seed, then backward
\* from the seed with totalDrift reset to 0.
createBidirectionalBatch(startIndex, segs, bearingTolerance, maxBearingDrift) ==
    LET batch0 == [constituents |-> <<startIndex>>,
                   startIndex |-> startIndex,
                   endIndex |-> startIndex]
        referenceBearing == At(segs, startIndex).bearing
        forward == BatchForward(batch0, startIndex, FromInt(0), segs, referenceBearing,
                                bearingTolerance, maxBearingDrift)
    IN  BatchBackward(forward, startIndex, FromInt(0), segs, referenceBearing,
                      bearingTolerance, maxBearingDrift)

\* createRepresentativeSegment, the forEach: the sum over the constituents of
\* f(segment), f being the segment's length or bearing * length.
RECURSIVE SumLengths(_, _)
SumLengths(constituents, segs) ==
    IF constituents = <<>> THEN 0
    ELSE LET segment == At(segs, Head(constituents))
         IN  calculateDistance(segment.start, segment.end)
                 + SumLengths(Tail(constituents), segs)

RECURSIVE SumWeightedBearings(_, _)
SumWeightedBearings(constituents, segs) ==
    IF constituents = <<>> THEN FromInt(0)
    ELSE LET segment == At(segs, Head(constituents))
             segmentLength == calculateDistance(segment.start, segment.end)
         IN  RAdd(RScale(segment.bearing, segmentLength),
                  SumWeightedBearings(Tail(constituents), segs))

\* geometry.js createRepresentativeSegment.
createRepresentativeSegment(batch, segs) ==
    LET firstSegment == At(segs, batch.startIndex)
        lastSegment == At(segs, batch.endIndex)
        totalLength == SumLengths(batch.constituents, segs)
        weightedBearingSum == SumWeightedBearings(batch.constituents, segs)
        representativeBearing ==
            IF totalLength > 0 THEN RDivInt(weightedBearingSum, totalLength)
            ELSE firstSegment.bearing
        totalBatchLength == calculateDistance(firstSegment.start, lastSegment.end)
    IN  [start |-> firstSegment.start,
         end |-> lastSegment.end,
         bearing |-> representativeBearing,
         osmId |-> firstSegment.osmId,
         highway |-> firstSegment.highway,
         segmentCount |-> Len(batch.constituents),
         totalLength |-> totalBatchLength,
         constituents |-> batch.constituents]

\* Variants of the filter of batchStraightSegments.
MeetsRequirements_Or(representativeSegment, batch, cfg) ==
    \/ representativeSegment.totalLength >= cfg.minBatchLength
    \/ (~cfg.requireBatching \/ Len(batch.constituents) >= 2)
MeetsRequirements_AlwaysBatched(representativeSegment, batch, cfg) ==
    /\ representativeSegment.totalLength >= cfg.minBatchLength
    /\ Len(batch.constituents) >= 2

\* batchStraightSegments, "Apply filtering criteria":
\*   meetsLengthRequirement && meetsBatchingRequirement
MeetsRequirements(representativeSegment, batch, cfg) ==
    LET meetsLengthRequirement ==
            representativeSegment.totalLength >= cfg.minBatchLength
        meetsBatchingRequirement ==
            ~cfg.requireBatching \/ Len(batch.constituents) >= 2
    IN  meetsLengthRequirement /\ meetsBatchingRequirement

\* batchStraightSegments, the for loop from index i on.  acc holds
\* processedSegments, batchedResults and the batches built so far.
RECURSIVE BatchLoop(_, _, _, _)
BatchLoop(i, segs, cfg, acc) ==
    IF i >= Len(segs) THEN acc
    ELSE IF SegmentId(At(segs, i)) \in acc.processedSegments
         THEN BatchLoop(i + 1, segs, cfg, acc)
         ELSE LET batch == createBidirectionalBatch(i, segs, cfg.bearingTolerance,
                                                    cfg.maxBearingDrift)
                  marked == {SegmentId(At(segs, batch.constituents[k])) :
                                 k \in 1 .. Len(batch.constituents)}
                  representativeSegment == createRepresentativeSegment(batch, segs)
              IN  BatchLoop(i + 1, segs, cfg,
                      [processedSegments |-> acc.processedSegments \cup marked,
                       batchedResults |->
                           IF MeetsRequirements(representativeSegment, batch, cfg)
                           THEN Append(acc.batchedResults, representativeSegment)
                           ELSE acc.batchedResults,
                       batches |-> Append(acc.batches,
                                          [seed |-> i,
                                           constituents |-> batch.constituents,
                                           startIndex |-> batch.startIndex,
                                           endIndex |-> batch.endIndex])])

\* geometry.js batchStraightSegments: [] for no segments, else the loop.
batchStraightSegments(segs, cfg) ==
    IF Len(segs) = 0
    THEN [processedSegments |-> {}, batchedResults |-> <<>>, batches |-> <<>>]
    ELSE BatchLoop(0, segs, cfg,
                   [processedSegments |-> {}, batchedResults |-> <<>>, batches |-> <<>>])

-----------------------------------------------------------------------------
(* Batching: one polyline goes through processStreetSegments (when it comes  *)
(* as an OSM way) and batchStraightSegments, and the output is batched again *)

MaxSegs == 4

\* Unit segments reach the batcher in one of two ways.  From an OSM way on a
\* meridian, whose vertices move north or south by WaySteps and whose bearings
\* processStreetSegments computes (0 or 180).  Or as the unit segments of a
\* street that runs within a degree or so of north: each is Lengths long, its
\* bearing is one of Bearings, and its sideways offset is below the unit of lat.
WaySteps == {-1, 2}             \* lat of the next vertex minus lat of this one
Lengths == {1, 2}               \* the same, for the street running north
Bearings == {359, 0, 1}         \* bearings of its unit segments
Tolerances == {0, 1}            \* bearingTolerance (CONFIG: 1.0)
Drifts == {0, 1, 2}             \* maxBearingDrift (CONFIG: 1.0)
MinLengths == {1, 3}            \* minBatchLength (CONFIG: 1)

Configs ==
    [bearingTolerance : Tolerances, minBatchLength : MinLengths,
     maxBearingDrift : Drifts, requireBatching : BOOLEAN]

SeqsUpTo(S, n) == UNION {[1 .. k -> S] : k \in 0 .. n}

\* The vertices of the polyline that starts at lat 0 and moves by steps.
RECURSIVE LatAfter(_, _)
LatAfter(steps, k) == IF k = 0 THEN 0 ELSE LatAfter(steps, k - 1) + steps[k]

Polyline(steps) == [i \in 1 .. (Len(steps) + 1) |-> Point(LatAfter(steps, i - 1))]

\* The geometry arrays of OSM ways: no vertex, or a polyline of 1..MaxSegs+1 vertices.
Geometries == {<<>>} \cup {Polyline(steps) : steps \in SeqsUpTo(WaySteps, MaxSegs)}

Way(geometry) == [id |-> 1, geometry |-> geometry, highway |-> "residential"]

\* Unit segments along a polyline with the bearings measured for them.
UnitSegments(geometry, bearings) ==
    [i \in 1 .. Len(bearings) |->
        [start |-> geometry[i],
         end |-> geometry[i + 1],
         bearing |-> FromInt(bearings[i]),
         osmId |-> 1,
         highway |-> "residential",
         segmentIndex |-> i - 1]]

BatchInit ==
    /\ AlignIdle
    /\ ServiceIdle
    /\ config \in Configs
    /\ batches = <<>>
    /\ batchedResults = <<>>
    /\ rebatchedResults = <<>>
    /\ \/ /\ pc = "way"
          /\ \E geometry \in Geometries : osmWay = Way(geometry)
          /\ segments = <<>>
       \/ /\ pc = "segments"
          /\ osmWay = NoWay
          /\ \E steps \in SeqsUpTo(Lengths, MaxSegs) :
                \E bearings \in [1 .. Len(steps) -> Bearings] :
                    segments = UnitSegments(Polyline(steps), bearings)

\* streets.js processOsmData: const waySegments = processStreetSegments(element)
ProcessStreetSegments ==
    /\ pc = "way"
    /\ segments' = processStreetSegments(osmWay)
    /\ pc' = "segments"
    /\ UNCHANGED <<osmWay, config, batches, batchedResults, rebatchedResults>>
    /\ UNCHANGED alignVars
    /\ UNCHANGED serviceVars

\* streets.js processOsmData: const batched = batchStraightSegments(waySegments, ...)
BatchStraightSegments ==
    /\ pc = "segments"
    /\ LET out == batchStraightSegments(segments, config)
       IN  /\ batchedResults' = out.batchedResults
           /\ batches' = out.batches
    /\ pc' = "batched"
    /\ UNCHANGED <<osmWay, segments, config, rebatchedResults>>
    /\ UNCHANGED alignVars
    /\ UNCHANGED serviceVars

\* Each Representative Segment taken as one unit segment with its own bearing,
\* numbered by its position in the list.
AsUnitSegments(results) ==
    [i \in 1 .. Len(results) |->
        [start |-> results[i].start,
         end |-> results[i].end,
         bearing |-> results[i].bearing,
         osmId |-> results[i].osmId,
         highway |-> results[i].highway,
         segmentIndex |-> i - 1]]

\* batchStraightSegments run again on its own output, same configuration.
Rebatch ==
    /\ pc = "batched"
    /\ rebatchedResults' =
           batchStraightSegments(AsUnitSegments(batchedResults), config).batchedResults
    /\ pc' = "rebatched"
    /\ UNCHANGED <<osmWay, segments, config, batches, batchedResults>>
    /\ UNCHANGED alignVars
    /\ UNCHANGED serviceVars

BatchNext == ProcessStreetSegments \/ BatchStraightSegments \/ Rebatch

SpecBatch == BatchInit /\ [][BatchNext]_vars

-----------------------------------------------------------------------------
(* Claims about the segment batcher *)

Batched == pc \in {"batched", "rebatched"}

IndexRun(lo, hi) == [k \in 1 .. (hi - lo + 1) |-> lo + k - 1]

\* Great-circle length of the chord from the start of unit segment lo to the
\* end of unit segment hi.
Chord(lo, hi) == calculateDistance(At(segments, lo).start, At(segments, hi).end)

\* The sum, over the indices of a list, of the circular bearing difference
\* between the seed's bearing and the bearing of the unit segment at the index.
RECURSIVE DriftSum(_, _)
DriftSum(indices, referenceBearing) ==
    IF indices = <<>> THEN FromInt(0)
    ELSE RAdd(calculateBearingDifference(referenceBearing,
                                         At(segments, Head(indices)).bearing),
              DriftSum(Tail(indices), referenceBearing))

AfterSeed(b) == SelectSeq(b.constituents, LAMBDA i : i > b.seed)
BeforeSeed(b) == SelectSeq(b.constituents, LAMBDA i : i < b.seed)
SeedBearing(b) == At(segments, b.seed).bearing

\* C4: every Representative Segment returned by batchStraightSegments is the
\* representative of a batch with totalLength >= minBatchLength and
\* (segmentCount >= 2 or requireBatching false); no batch failing either
\* condition is in the output.
C4_EmittedMeetFilter ==
    Batched =>
        \A j \in 1 .. Len(batchedResults) :
            LET r == batchedResults[j]
            IN  /\ \E k \in 1 .. Len(batches) :
                       /\ batches[k].constituents = r.constituents
                       /\ r.totalLength = Chord(batches[k].startIndex, batches[k].endIndex)
                /\ r.segmentCount = Len(r.constituents)
                /\ r.totalLength >= config.minBatchLength
                /\ (r.segmentCount >= 2 \/ ~config.requireBatching)

\* C4 witness: one batch was emitted and another was discarded for its length
\* although it has two constituents or more.
C4_Witness ==
    /\ pc = "batched"
    /\ Len(batchedResults) >= 1
    /\ \E k \in 1 .. Len(batches) :
           /\ Len(batches[k].constituents) >= 2
           /\ Chord(batches[k].startIndex, batches[k].endIndex) < config.minBatchLength
           /\ \A j \in 1 .. Len(batchedResults) :
                  batchedResults[j].constituents # batches[k].constituents

\* C5: in every batch each non-seed constituent's bearing differs circularly
\* from the seed's by at most bearingTolerance, the differences after the seed
\* sum to at most maxBearingDrift and so do, separately, those before the seed.
C5_PerDirectionDrift ==
    Batched =>
        \A k \in 1 .. Len(batches) :
            LET b == batches[k]
            IN  /\ \A j \in 1 .. Len(b.constituents) :
                       b.constituents[j] # b.seed =>
                           RLe(calculateBearingDifference(
                                   SeedBearing(b), At(segments, b.constituents[j]).bearing),
                               FromInt(config.bearingTolerance))
                /\ RLe(DriftSum(AfterSeed(b), SeedBearing(b)),
                       FromInt(config.maxBearingDrift))
                /\ RLe(DriftSum(BeforeSeed(b), SeedBearing(b)),
                       FromInt(config.maxBearingDrift))

\* C5 witness: a batch that grew on both sides of its seed and used up the
\* whole drift allowance on each side.
C5_Witness ==
    /\ pc = "batched"
    /\ config.maxBearingDrift > 0
    /\ \E k \in 1 .. Len(batches) :
           LET b == batches[k]
           IN  /\ DriftSum(AfterSeed(b), SeedBearing(b)) = FromInt(config.maxBearingDrift)
               /\ DriftSum(BeforeSeed(b), SeedBearing(b)) = FromInt(config.maxBearingDrift)

\* C6: the total bearing drift across a batch, the sum of the circular bearing
\* differences from the seed over all its non-seed constituents (before and
\* after the seed together), is at most maxBearingDrift.
C6_TotalDrift ==
    Batched =>
        \A k \in 1 .. Len(batches) :
            LET b == batches[k]
            IN  RLe(RAdd(DriftSum(AfterSeed(b), SeedBearing(b)),
                         DriftSum(BeforeSeed(b), SeedBearing(b))),
                    FromInt(config.maxBearingDrift))

\* The n >= 2 unit segments all have exactly the same bearing.
SameBearing(lo, hi) ==
    \A i \in lo .. hi : At(segments, i).bearing = At(segments, lo).bearing

\* C7: a polyline of n >= 2 unit segments of one bearing, with requireBatching
\* true and chord length >= minBatchLength, yields exactly one Representative
\* Segment whose constituents are all n unit segments and segmentCount is n.
C7_StraightPolylineOneBatch ==
    ( /\ Batched
      /\ Len(segments) >= 2
      /\ SameBearing(0, Len(segments) - 1)
      /\ config.requireBatching
      /\ Chord(0, Len(segments) - 1) >= config.minBatchLength )
    => /\ Len(batchedResults) = 1
       /\ batchedResults[1].constituents = IndexRun(0, Len(segments) - 1)
       /\ batchedResults[1].segmentCount = Len(segments)

\* C7 witness: the spec's example, four unit segments of one bearing, here with
\* tolerance and drift zero.
C7_Witness ==
    /\ pc = "batched"
    /\ Len(segments) = 4
    /\ SameBearing(0, 3)
    /\ config.requireBatching
    /\ config.bearingTolerance = 0
    /\ config.maxBearingDrift = 0
    /\ Chord(0, 3) >= config.minBatchLength
    /\ Len(batchedResults) = 1
    /\ batchedResults[1].segmentCount = 4

\* The polyline is m >= 2 unit segments of one bearing followed by k >= 2 unit
\* segments of another, the two more than bearingTolerance apart, and both
\* runs pass the length filter.
TwoRuns(m) ==
    /\ m >= 2
    /\ Len(segments) - m >= 2
    /\ SameBearing(0, m - 1)
    /\ SameBearing(m, Len(segments) - 1)
    /\ RLt(FromInt(config.bearingTolerance),
           calculateBearingDifference(At(segments, 0).bearing, At(segments, m).bearing))
    /\ Chord(0, m - 1) >= config.minBatchLength
    /\ Chord(m, Len(segments) - 1) >= config.minBatchLength

\* C8: for such a polyline batchStraightSegments returns exactly two
\* Representative Segments, constituents 0..m-1 and m..m+k-1; no constituent
\* crosses the boundary.
C8_SplitAtBearingChange ==
    Batched =>
        \A m \in 2 .. Len(segments) :
            TwoRuns(m) =>
                /\ Len(batchedResults) = 2
                /\ batchedResults[1].constituents = IndexRun(0, m - 1)
                /\ batchedResults[2].constituents = IndexRun(m, Len(segments) - 1)

\* C8 witness: two runs of two unit segments whose bearings differ across the
\* 0/360 wrap by more than a non-zero tolerance, split in two.
C8_Witness ==
    /\ pc = "batched"
    /\ TwoRuns(2)
    /\ config.bearingTolerance = 1
    /\ At(segments, 0).bearing = FromInt(359)
    /\ At(segments, 2).bearing = FromInt(1)
    /\ Len(batchedResults) = 2

\* What a segment is, apart from the bookkeeping of the batch it came from.
Geometry(r) ==
    [start |-> r.start, end |-> r.end, bearing |-> r.bearing,
     totalLength |-> r.totalLength, osmId |-> r.osmId, highway |-> r.highway]

GeometrySet(results) == {Geometry(results[i]) : i \in 1 .. Len(results)}

\* C9: batching is idempotent: batchStraightSegments run on its own output,
\* each Representative Segment taken as one unit segment, returns the same set
\* of segments (no further merging, nothing dropped).
C9_Idempotent ==
    pc = "rebatched" => GeometrySet(rebatchedResults) = GeometrySet(batchedResults)

\* No two neighbours of the first output can be merged: their bearings differ
\* by more than bearingTolerance or by more than maxBearingDrift.
NoMergePossible ==
    \A i \in 1 .. (Len(batchedResults) - 1) :
        LET d == calculateBearingDifference(batchedResults[i].bearing,
                                            batchedResults[i + 1].bearing)
        IN  \/ RLt(FromInt(config.bearingTolerance), d)
            \/ RLt(FromInt(config.maxBearingDrift), d)

\* C9 as amended: with requireBatching false and no two neighbouring output
\* segments within bearingTolerance and maxBearingDrift of each other, the
\* second run returns one segment per segment of the first output, in the
\* same order, with the same start, end, bearing and totalLength, each a batch
\* of one.
C9_IdempotentWhenUnbatchedKept ==
    (pc = "rebatched" /\ ~config.requireBatching /\ NoMergePossible) =>
        /\ Len(rebatchedResults) = Len(batchedResults)
        /\ \A i \in 1 .. Len(batchedResults) :
               /\ Geometry(rebatchedResults[i]) = Geometry(batchedResults[i])
               /\ rebatchedResults[i].segmentCount = 1
               /\ rebatchedResults[i].constituents = <<i - 1>>

\* C9 witness: a first output of two segments, one of them a merged batch, that
\* cannot merge, batched again with requireBatching false.
C9_Witness ==
    /\ pc = "rebatched"
    /\ ~config.requireBatching
    /\ NoMergePossible
    /\ Len(batchedResults) >= 2
    /\ \E i \in 1 .. Len(batchedResults) : batchedResults[i].segmentCount >= 2
    /\ Len(rebatchedResults) = Len(batchedResults)

\* C10: processStreetSegments on a polyline of n vertices returns max(n-1, 0)
\* unit segments, the i-th with segmentIndex i, start = vertex i and end =
\* vertex i+1; for n < 2 the list is empty and batchStraightSegments returns
\* an empty list for it.
C10_SegmentsPerVertexPair ==
    (osmWay # NoWay /\ pc # "way") =>
        LET n == Len(osmWay.geometry)
        IN  /\ Len(segments) = Max(n - 1, 0)
            /\ \A i \in 0 .. (Len(segments) - 1) :
                   /\ At(segments, i).segmentIndex = i
                   /\ At(segments, i).start = osmWay.geometry[i + 1]
                   /\ At(segments, i).end = osmWay.geometry[i + 2]
            /\ (n < 2 => segments = <<>>)
            /\ ((n < 2 /\ Batched) => (batchedResults = <<>> /\ batches = <<>>))

\* C10 witness: a way of a single vertex went through both functions.
C10_Witness ==
    /\ pc = "batched"
    /\ osmWay # NoWay
    /\ Len(osmWay.geometry) = 1
    /\ segments = <<>>
    /\ batchedResults = <<>>

-----------------------------------------------------------------------------
(* OSM processing: StreetDataManager.processOsmData on one parsed response  *)

MaxElements == 2

\* CONFIG.streets.includedTypes and CONFIG.streets.excludedTypes.
includedTypes ==
    {"primary", "secondary", "tertiary", "residential", "footway", "cycleway", "path"}
excludedTypes == {"motorway", "trunk"}

\* CONFIG.streets.batching.
DefaultBatching ==
    [bearingTolerance |-> 1, minBatchLength |-> 1,
     maxBearingDrift |-> 1, requireBatching |-> TRUE]

\* element.tags?.highway of an element that carries no highway tag.
NoTag == "undefined"

\* The elements of a response: ways and nodes; a highway tag that is listed,
\* excluded, neither, or missing; no geometry, or the geometry of a straight
\* way of one or of two unit segments.
ElementTypes == {"way", "node"}
HighwayTags == {"residential", "motorway", "service", NoTag}
ElementSteps == {<<2>>, <<2, 2>>}
ElementShapes ==
    [type : ElementTypes, highway : HighwayTags, hasGeometry : {FALSE}, geometry : {<<>>}]
    \cup [type : ElementTypes, highway : HighwayTags, hasGeometry : {TRUE},
          geometry : {Polyline(steps) : steps \in ElementSteps}]

\* A response whose i-th element has id i.
OsmResponse(shapes) ==
    [hasElements |-> TRUE,
     elements |-> [i \in 1 .. Len(shapes) |->
                      [type |-> shapes[i].type,
                       id |-> i,
                       hasGeometry |-> shapes[i].hasGeometry,
                       geometry |-> shapes[i].geometry,
                       highway |-> shapes[i].highway]]]

\* A response without an elements array.
InvalidOsmData == [hasElements |-> FALSE, elements |-> <<>>]

\* streets.js processOsmData, the forEach over osmData.elements from element i
\* on: an element that is a way and has a geometry goes through
\* processStreetSegments and batchStraightSegments, and the result is pushed.
RECURSIVE ForEachElement(_, _)
ForEachElement(elements, i) ==
    IF i > Len(elements)
    THEN <<>>
    ELSE LET element == elements[i]
             batched ==
                 IF element.type = "way" /\ element.hasGeometry
                 THEN batchStraightSegments(processStreetSegments(element),
                                            DefaultBatching).batchedResults
                 ELSE <<>>
         IN  batched \o ForEachElement(elements, i + 1)

\* streets.js processOsmData: [] without an elements array, else the forEach.
processOsmData(data) ==
    IF ~data.hasElements THEN <<>> ELSE ForEachElement(data.elements, 1)

OsmInit ==
    /\ pc = "osm"
    /\ AlignIdle
    /\ BatchIdle
    /\ HeatmapIdle
    /\ MaximaIdle
    /\ DayIdle
    /\ CacheIdle
    /\ FetchIdle
    /\ \/ osmData = InvalidOsmData
       \/ \E shapes \in SeqsUpTo(ElementShapes, MaxElements) :
              osmData = OsmResponse(shapes)
    /\ streetSegments = <<>>

\* streets.js fetchStreetData: const segments = this.processOsmData(data)
ProcessOsmData ==
    /\ pc = "osm"
    /\ streetSegments' = processOsmData(osmData)
    /\ pc' = "osm_done"
    /\ UNCHANGED osmData
    /\ UNCHANGED <<heatmapVars, alignVars, batchVars, maximaVars, dayVars, cacheVars, fetchVars>>

OsmNext == ProcessOsmData

SpecOsm == OsmInit /\ [][OsmNext]_vars

\* A road type passes the configured type filter.
TypeAllowed(highway) == highway \in includedTypes /\ highway \notin excludedTypes

\* C11: every Representative Segment that processOsmData returns has a road
\* type that is in includedTypes and not in excludedTypes, and a way whose
\* type is excluded, unlisted or missing contributes nothing to the result.
C11_OnlyIncludedTypes ==
    pc = "osm_done" =>
        /\ \A k \in 1 .. Len(streetSegments) : TypeAllowed(streetSegments[k].highway)
        /\ \A i \in 1 .. Len(osmData.elements) :
               ~TypeAllowed(osmData.elements[i].highway) =>
                   \A k \in 1 .. Len(streetSegments) : streetSegments[k].osmId # i

-----------------------------------------------------------------------------
(* Local maxima: OptimalDayCalculator.findLocalMaxima on a list of day       *)
(* results, and the result object findOptimalDay builds from its value.      *)
(* A day result is a record with dayOfYear and bestAlignment.alignmentScore. *)

MaxDays == 5
MaxPeaks == 6

\* localMaxima.slice(0, 5)
TopCount == 5

Score(day) == day.bestAlignment.alignmentScore

\* Array.prototype.sort is stable: an element comes after the elements the
\* comparator puts before it and after the earlier elements it ties with.
ScoreRank(days, i) ==
    Cardinality({j \in 1 .. Len(days) : Score(days[j]) > Score(days[i])})
    + Cardinality({j \in 1 .. (i - 1) : Score(days[j]) = Score(days[i])}) + 1

\* A list left in the order it has.
SortByScore_Unsorted(days) == days

\* sort((a, b) => b.bestAlignment.alignmentScore - a.bestAlignment.alignmentScore)
SortByScore(days) ==
    [p \in 1 .. Len(days) |->
        days[CHOOSE i \in 1 .. Len(days) : ScoreRank(days, i) = p]]

DayRank(days, i) ==
    Cardinality({j \in 1 .. Len(days) : days[j].dayOfYear < days[i].dayOfYear})
    + Cardinality({j \in 1 .. (i - 1) : days[j].dayOfYear = days[i].dayOfYear}) + 1

\* sort((a, b) => a.dayOfYear - b.dayOfYear): a list in day order stays as it is.
SortByDay(days) ==
    IF \A i \in 1 .. (Len(days) - 1) : days[i].dayOfYear <= days[i + 1].dayOfYear
    THEN days
    ELSE [p \in 1 .. Len(days) |->
             days[CHOOSE i \in 1 .. Len(days) : DayRank(days, i) = p]]

\* The test of the loop with >= for >.
IsLocalMaximum_NonStrict(currentScore, prevScore, nextScore) ==
    currentScore >= prevScore /\ currentScore >= nextScore

\* findLocalMaxima: currentScore > prevScore && currentScore > nextScore
IsLocalMaximum(currentScore, prevScore, nextScore) ==
    currentScore > prevScore /\ currentScore > nextScore

\* findLocalMaxima: for (let i = 1; i < sortedByDay.length - 1; i++), the days
\* it pushes, in the order of the loop.
InteriorMaxima(sortedByDay) ==
    LET indices == [i \in 1 .. (Len(sortedByDay) - 2) |-> i]
        pushed ==
            SelectSeq(indices,
                      LAMBDA i : IsLocalMaximum(Score(At(sortedByDay, i)),
                                                Score(At(sortedByDay, i - 1)),
                                                Score(At(sortedByDay, i + 1))))
    IN  [k \in 1 .. Len(pushed) |-> At(sortedByDay, pushed[k])]

\* findLocalMaxima: the first day, pushed when it is higher than the second.
FirstMaximum(sortedByDay) ==
    IF Len(sortedByDay) >= 2 /\ Score(At(sortedByDay, 0)) > Score(At(sortedByDay, 1))
    THEN <<At(sortedByDay, 0)>> ELSE <<>>

\* findLocalMaxima: the last day, pushed when it is higher than the one before.
LastMaximum(sortedByDay) ==
    LET n == Len(sortedByDay)
    IN  IF n >= 2 /\ Score(At(sortedByDay, n - 1)) > Score(At(sortedByDay, n - 2))
        THEN <<At(sortedByDay, n - 1)>> ELSE <<>>

\* results after findLocalMaxima, which sorts the array it is handed in place.
SortedInPlace(days) == IF Len(days) < 3 THEN SortByScore(days) ELSE SortByDay(days)

\* findLocalMaxima
findLocalMaxima(days) ==
    IF Len(days) < 3
    THEN SortByScore(days)
    ELSE LET sortedByDay == SortByDay(days)
         IN  SortByScore(InteriorMaxima(sortedByDay)
                         \o FirstMaximum(sortedByDay)
                         \o LastMaximum(sortedByDay))

\* Array.prototype.slice(0, count)
Slice(s, count) == SubSeq(s, 1, Min(count, Len(s)))

\* findOptimalDay: the fields of optimalResult that come from localMaxima.
OptimalResult(maxima) ==
    [bestDay |-> IF Len(maxima) > 0 THEN maxima[1] ELSE NoDay,
     topDays |-> Slice(maxima, TopCount),
     totalLocalMaxima |-> Len(maxima)]

\* The scores of a list of day results, as 90 * alignmentScore.
Scores == {9, 18, 36, 45, 81}

\* Peaks of any of these heights, or none, over valleys of the lowest score.
PeakScores == {9, 45, 81}
ValleyScore == 9

DayResult(day, score) == [dayOfYear |-> day, bestAlignment |-> [alignmentScore |-> score]]

\* One day result per score, for the days 1, 2, ...
DayResults(scores) == [i \in 1 .. Len(scores) |-> DayResult(i, scores[i])]

\* peak, valley, peak, ..., peak
Comb(peaks) ==
    [i \in 1 .. (2 * Len(peaks) - 1) |->
        IF i % 2 = 1 THEN peaks[(i + 1) \div 2] ELSE ValleyScore]

ScoreLists ==
    SeqsUpTo(Scores, MaxDays)
    \cup {Comb(peaks) : peaks \in SeqsUpTo(PeakScores, MaxPeaks) \ {<<>>}}

MaximaInit ==
    /\ pc = "results"
    /\ AlignIdle
    /\ BatchIdle
    /\ HeatmapIdle
    /\ OsmIdle
    /\ DayIdle
    /\ CacheIdle
    /\ FetchIdle
    /\ \E scores \in ScoreLists : scanResults = DayResults(scores)
    /\ localMaxima = <<>>
    /\ optimalResult = NoResult

\* findOptimalDay: const localMaxima = this.findLocalMaxima(results)
FindLocalMaxima ==
    /\ pc = "results"
    /\ localMaxima' = findLocalMaxima(scanResults)
    /\ scanResults' = SortedInPlace(scanResults)
    /\ pc' = "maxima"
    /\ UNCHANGED optimalResult
    /\ UNCHANGED <<heatmapVars, alignVars, batchVars, osmVars, dayVars, cacheVars, fetchVars>>

\* findOptimalDay: const optimalResult = {bestDay, topDays, totalLocalMaxima, ...}
BuildOptimalResult ==
    /\ pc = "maxima"
    /\ optimalResult' = OptimalResult(localMaxima)
    /\ pc' = "result"
    /\ UNCHANGED <<scanResults, localMaxima>>
    /\ UNCHANGED <<heatmapVars, alignVars, batchVars, osmVars, dayVars, cacheVars, fetchVars>>

MaximaNext == FindLocalMaxima \/ BuildOptimalResult

SpecMaxima == MaximaInit /\ [][MaximaNext]_vars

ScoreOn(i) == Score(scanResults[i])

\* The positions of scanResults, three or more days in day order, that are
\* local maxima: higher than both neighbours, or first and higher than the
\* second, or last and higher than the one before.
MaximaPositions ==
    LET n == Len(scanResults)
    IN  {i \in 1 .. n :
            \/ 1 < i /\ i < n /\ ScoreOn(i) > ScoreOn(i - 1) /\ ScoreOn(i) > ScoreOn(i + 1)
            \/ i = 1 /\ ScoreOn(1) > ScoreOn(2)
            \/ i = n /\ ScoreOn(n) > ScoreOn(n - 1)}

ExampleScores == <<9, 45, 81, 36, 18>>

\* C12: on three or more days findLocalMaxima returns exactly the days that
\* are strictly higher than both neighbouring days, the first day exactly
\* when it is strictly higher than the second, and the last day exactly when
\* it is strictly higher than the one before; on the scores
\* [0.1, 0.5, 0.9, 0.4, 0.2] it returns exactly the day that scores 0.9.
C12_ExactlyTheLocalMaxima ==
    (pc \in {"maxima", "result"} /\ Len(scanResults) >= 3) =>
        /\ {localMaxima[k] : k \in 1 .. Len(localMaxima)}
               = {scanResults[i] : i \in MaximaPositions}
        /\ Len(localMaxima) = Cardinality(MaximaPositions)
        /\ scanResults = DayResults(ExampleScores) => localMaxima = <<DayResult(3, 81)>>

C12_Witness ==
    /\ pc = "maxima"
    /\ scanResults = DayResults(ExampleScores)
    /\ localMaxima = <<DayResult(3, 81)>>

\* C13: the local maxima are in order of non-increasing score,
\* totalLocalMaxima is their full count, topDays is the first
\* min(5, totalLocalMaxima) of them in that order, and bestDay is topDays[0],
\* or null when there is no local maximum.
C13_RankedTopDays ==
    pc = "result" =>
        LET total == optimalResult.totalLocalMaxima
            topDays == optimalResult.topDays
        IN  /\ \A k \in 1 .. (Len(localMaxima) - 1) :
                   Score(localMaxima[k]) >= Score(localMaxima[k + 1])
            /\ total = Len(localMaxima)
            /\ Len(scanResults) >= 3 => total = Cardinality(MaximaPositions)
            /\ Len(topDays) = Min(TopCount, total)
            /\ \A k \in 1 .. Len(topDays) : topDays[k] = localMaxima[k]
            /\ optimalResult.bestDay = (IF total = 0 THEN NoDay ELSE topDays[1])

\* More local maxima than topDays holds, of more than one height.
C13_Witness ==
    /\ pc = "result"
    /\ optimalResult.totalLocalMaxima > TopCount
    /\ Len(optimalResult.topDays) = TopCount
    /\ Score(optimalResult.topDays[1]) > Score(optimalResult.topDays[TopCount])
    /\ optimalResult.bestDay = optimalResult.topDays[1]

-----------------------------------------------------------------------------
(* Optimal day: OptimalDayCalculator.findOptimalDay and                      *)
(* findOptimalDayWithProgress at one location, with the SolarCalculator they *)
(* call.  A call is one step: between its timer yields nothing else touches  *)
(* the calculator's state.  Azimuths are whole degrees.                      *)

MaxQueries == 2

DaysInLeapYear == 366
DaysInCommonYear == 365

\* solar.js getSunAzimuth: return 180 when the computation throws.
FallbackAzimuth == 180

\* CONFIG.optimalDay.cacheMaxSize
cacheMaxSize == 100

\* What SunCalc does on the days failFrom..failTo of a year, for the sunrise
\* and, when both is set, for the sunset as well: it throws, or getTimes
\* returns an Invalid Date (no sunrise or sunset on that day).
Skies ==
    {ClearSky,
     [failFrom |-> 40, failTo |-> 45, kind |-> "invalidTime", both |-> FALSE],
     [failFrom |-> 1, failTo |-> 1, kind |-> "throws", both |-> TRUE],
     [failFrom |-> 360, failTo |-> 366, kind |-> "invalidTime", both |-> TRUE]}

SunFails(s, day, isSunrise) ==
    day \in s.failFrom .. s.failTo /\ (isSunrise \/ s.both)

\* normalizeAzimuth(SunCalc.getPosition(sunrise or sunset).azimuth): the sun
\* rises at 120 degrees on the winter solstice and at 60 on the summer
\* solstice, and sets at the mirrored azimuth.
SunriseAzimuth(day) ==
    LET phase == (day + 10) % 365
        t == IF phase <= 182 THEN phase ELSE 365 - phase
    IN  120 - ((t * 60) \div 182)

SunCalcAzimuth(day, isSunrise) ==
    IF isSunrise THEN SunriseAzimuth(day) ELSE FullCircle - SunriseAzimuth(day)

\* normalizeAzimuth(SunCalc.getPosition(noon).azimuth): the sun stands south.
NoonAzimuth == HalfCircle

\* Map.prototype.set
Put(map, key, value) ==
    [k \in DOMAIN map \cup {key} |-> IF k = key THEN value ELSE map[k]]

\* `${date.toDateString()}_${lat.toFixed(4)}_${lng.toFixed(4)}_${isSunrise}`
SolarKey(year, day, isSunrise) == <<year, day, isSunrise>>

\* solar.js getSunAzimuth: what it returns, whether it throws to its caller,
\* and whether it stores the azimuth in the cache.
getSunAzimuth(cache, s, year, day, isSunrise) ==
    LET cacheKey == SolarKey(year, day, isSunrise)
    IN  IF cacheKey \in DOMAIN cache
        THEN [threw |-> FALSE, azimuth |-> cache[cacheKey], stored |-> FALSE]
        ELSE IF SunFails(s, day, isSunrise) /\ s.kind = "throws"
        THEN [threw |-> FALSE, azimuth |-> FallbackAzimuth, stored |-> FALSE]
        ELSE IF SunFails(s, day, isSunrise) /\ s.kind = "invalidTime"
        THEN [threw |-> FALSE, azimuth |-> NoonAzimuth, stored |-> FALSE]
        ELSE [threw |-> FALSE, azimuth |-> SunCalcAzimuth(day, isSunrise),
              stored |-> TRUE]

\* The try block of one type in the day loop: one alignment entry, or none
\* when getSunAzimuth throws.
AlignmentEntry(type, bearing, sun) ==
    IF sun.threw
    THEN <<>>
    ELSE <<[type |-> type,
            sunAzimuth |-> sun.azimuth,
            alignmentScore |-> calculateStreetAlignment(bearing, sun.azimuth)]>>

\* dayResults.alignments at the end of one iteration of the day loop.
DayAlignments(q, cache, s, day) ==
    (IF q.includeSunrise
     THEN AlignmentEntry("sunrise", q.streetBearing,
                         getSunAzimuth(cache, s, q.year, day, TRUE))
     ELSE <<>>)
    \o (IF q.includeSunset
        THEN AlignmentEntry("sunset", q.streetBearing,
                            getSunAzimuth(cache, s, q.year, day, FALSE))
        ELSE <<>>)

\* alignments.reduce((best, current) =>
\*     current.alignmentScore > best.alignmentScore ? current : best)
RECURSIVE ReduceBest(_, _)
ReduceBest(alignments, n) ==
    IF n = 1 THEN alignments[1]
    ELSE LET best == ReduceBest(alignments, n - 1)
             current == alignments[n]
         IN  IF current.alignmentScore > best.alignmentScore THEN current ELSE best

\* isLeapYear without the century rule.
isLeapYear_NoCentury(year) == year % 4 = 0

\* isLeapYear: (year % 4 === 0 && year % 100 !== 0) || (year % 400 === 0)
isLeapYear(year) == (year % 4 = 0 /\ year % 100 # 0) \/ (year % 400 = 0)

\* const daysInYear = this.isLeapYear(searchYear) ? 366 : 365
DaysInYear(year) == IF isLeapYear(year) THEN DaysInLeapYear ELSE DaysInCommonYear

\* The day loop of findOptimalDay and findOptimalDayWithProgress, for
\* dayOfYear = 1 .. daysInYear: the results it collects, the solar cache it
\* leaves, and the number of its iterations.  No key is asked for twice in one
\* loop, so every lookup sees the cache as it was before the loop.
ScanYear(q, cache, s) ==
    LET daysInYear == DaysInYear(q.year)
        iterations ==
            [day \in 1 .. daysInYear |->
                [dayOfYear |-> day, alignments |-> DayAlignments(q, cache, s, day)]]
        pushed == SelectSeq(iterations, LAMBDA r : Len(r.alignments) > 0)
        types == (IF q.includeSunrise THEN {TRUE} ELSE {})
                 \cup (IF q.includeSunset THEN {FALSE} ELSE {})
        stored ==
            {key \in {SolarKey(q.year, day, isSunrise) :
                         day \in 1 .. daysInYear, isSunrise \in types} :
                getSunAzimuth(cache, s, key[1], key[2], key[3]).stored}
    IN  [results |->
             [i \in 1 .. Len(pushed) |->
                 [dayOfYear |-> pushed[i].dayOfYear,
                  alignments |-> pushed[i].alignments,
                  bestAlignment |-> ReduceBest(pushed[i].alignments,
                                               Len(pushed[i].alignments))]],
         solarCache |->
             [key \in DOMAIN cache \cup stored |->
                 IF key \in DOMAIN cache THEN cache[key]
                 ELSE SunCalcAzimuth(key[2], key[3])],
         daysScanned |-> daysInYear]

\* The object both entry points return.
QueryResult(q, maxima) ==
    [streetBearing |-> q.streetBearing,
     year |-> q.year,
     searchParams |-> [includeSunrise |-> q.includeSunrise,
                       includeSunset |-> q.includeSunset],
     bestDay |-> OptimalResult(maxima).bestDay,
     topDays |-> OptimalResult(maxima).topDays,
     totalLocalMaxima |-> OptimalResult(maxima).totalLocalMaxima]

\* findOptimalDay: the cacheKey (one location).
OptimalKey(q) == <<q.streetBearing, q.year, q.includeSunrise, q.includeSunset>>

\* A call: its entry point and its arguments.
CallOf(method, q) == <<method, OptimalKey(q)>>

QueryBearings == {75}
Years == {1900, 2000, 2023, 2024}
SunriseOnlyYears == {2023}
Queries ==
    [streetBearing : QueryBearings, year : Years,
     includeSunrise : {TRUE}, includeSunset : {TRUE}]
    \cup [streetBearing : QueryBearings, year : SunriseOnlyYears,
          includeSunrise : {TRUE}, includeSunset : {FALSE}]

\* The call made last, with whether a call of the same entry point and
\* arguments had completed before.
Query(method, q) ==
    [method |-> method, streetBearing |-> q.streetBearing, year |-> q.year,
     includeSunrise |-> q.includeSunrise, includeSunset |-> q.includeSunset,
     repeat |-> CallOf(method, q) \in DOMAIN completedQueries]

Completed(method, q, result) ==
    IF CallOf(method, q) \in DOMAIN completedQueries
    THEN completedQueries
    ELSE Put(completedQueries, CallOf(method, q), result)

DayInit ==
    /\ pc = "day_idle"
    /\ AlignIdle
    /\ BatchIdle
    /\ HeatmapIdle
    /\ OsmIdle
    /\ MaximaIdle
    /\ CacheIdle
    /\ FetchIdle
    /\ sky \in Skies
    /\ query = NoQuery
    /\ optimalCache = EmptyMap
    /\ solarCache = EmptyMap
    /\ completedQueries = EmptyMap
    /\ daysScanned = 0
    /\ queryCount = 0

\* findOptimalDay(streetBearing, lat, lng, year, includeSunrise, includeSunset)
FindOptimalDay(q) ==
    /\ queryCount < MaxQueries
    /\ IF OptimalKey(q) \in DOMAIN optimalCache
       THEN /\ optimalResult' = optimalCache[OptimalKey(q)]
            /\ completedQueries' =
                   Completed("findOptimalDay", q, optimalCache[OptimalKey(q)])
            /\ daysScanned' = 0
            /\ scanResults' = <<>>
            /\ localMaxima' = <<>>
            /\ UNCHANGED <<optimalCache, solarCache>>
       ELSE \E scan \in {ScanYear(q, solarCache, sky)} :
            \E maxima \in {findLocalMaxima(scan.results)} :
            \E result \in {QueryResult(q, maxima)} :
                /\ scanResults' = SortedInPlace(scan.results)
                /\ localMaxima' = maxima
                /\ optimalResult' = result
                /\ optimalCache' = Put(optimalCache, OptimalKey(q), result)
                /\ solarCache' = scan.solarCache
                /\ daysScanned' = scan.daysScanned
                /\ completedQueries' = Completed("findOptimalDay", q, result)
    /\ query' = Query("findOptimalDay", q)
    /\ queryCount' = queryCount + 1
    /\ pc' = "day_called"
    /\ UNCHANGED sky
    /\ UNCHANGED <<heatmapVars, alignVars, batchVars, osmVars, cacheVars, fetchVars>>

\* findOptimalDayWithProgress(streetBearing, lat, lng, progressCallback, options)
FindOptimalDayWithProgress(q) ==
    /\ queryCount < MaxQueries
    /\ \E scan \in {ScanYear(q, solarCache, sky)} :
       \E maxima \in {findLocalMaxima(scan.results)} :
       \E result \in {QueryResult(q, maxima)} :
           /\ scanResults' = SortedInPlace(scan.results)
           /\ localMaxima' = maxima
           /\ optimalResult' = result
           /\ solarCache' = scan.solarCache
           /\ daysScanned' = scan.daysScanned
           /\ completedQueries' = Completed("findOptimalDayWithProgress", q, result)
    /\ query' = Query("findOptimalDayWithProgress", q)
    /\ queryCount' = queryCount + 1
    /\ pc' = "day_called"
    /\ UNCHANGED <<sky, optimalCache>>
    /\ UNCHANGED <<heatmapVars, alignVars, batchVars, osmVars, cacheVars, fetchVars>>

DayNext ==
    \E q \in Queries : FindOptimalDay(q) \/ FindOptimalDayWithProgress(q)

SpecDay == DayInit /\ [][DayNext]_vars

\* The call made last ran the day loop.
Scanned == pc = "day_called" /\ daysScanned > 0

\* The alignment entries of a type that the scan recorded for a day.
EntriesFor(day, type) ==
    {<<i, k>> \in {<<i, k>> \in (1 .. Len(scanResults)) \X (1 .. 2) :
                      k <= Len(scanResults[i].alignments)} :
        /\ scanResults[i].dayOfYear = day
        /\ scanResults[i].alignments[k].type = type}

TypeName(isSunrise) == IF isSunrise THEN "sunrise" ELSE "sunset"

Requested(isSunrise) == IF isSunrise THEN query.includeSunrise ELSE query.includeSunset

\* C14: when the solar computation for a day and type fails, by throwing or
\* by an invalid sun time, the scan records no alignment entry for that day
\* and type and a day left without entry is absent from the results; the
\* scan still processes every remaining day, which has its entries.
C14_FailedDayTypeOmitted ==
    Scanned =>
        /\ daysScanned = DaysInYear(query.year)
        /\ \A day \in 1 .. daysScanned : \A isSunrise \in BOOLEAN :
               Requested(isSunrise) =>
                   IF SunFails(sky, day, isSunrise)
                   THEN EntriesFor(day, TypeName(isSunrise)) = {}
                   ELSE Cardinality(EntriesFor(day, TypeName(isSunrise))) = 1
        /\ \A i \in 1 .. Len(scanResults) : Len(scanResults[i].alignments) > 0

\* C15: a call with the arguments of a call of the same entry point that has
\* completed returns the object the earlier call returned, without running
\* the day loop again; for findOptimalDay and findOptimalDayWithProgress.
C15_RepeatQueryFromCache ==
    (pc = "day_called" /\ query.repeat) =>
        /\ daysScanned = 0
        /\ optimalResult = completedQueries[<<query.method, OptimalKey(query)>>]

\* The same for findOptimalDay alone, which reads and writes its cache.
FindOptimalDayRepeatFromCache ==
    (pc = "day_called" /\ query.repeat /\ query.method = "findOptimalDay") =>
        /\ daysScanned = 0
        /\ optimalResult = completedQueries[<<query.method, OptimalKey(query)>>]

\* C16: the scan covers 366 days when the year is divisible by 4 and not by
\* 100, or divisible by 400, and 365 days otherwise (2024 and 2000: 366;
\* 2023 and 1900: 365); the collected day results have dayOfYear values in
\* 1 .. daysInYear in strictly increasing order.
C16_DaysOfTheYear ==
    Scanned =>
        LET year == query.year
            leap == year % 4 = 0 /\ (year % 100 # 0 \/ year % 400 = 0)
        IN  /\ daysScanned = (IF leap THEN 366 ELSE 365)
            /\ year \in {2024, 2000} => daysScanned = 366
            /\ year \in {2023, 1900} => daysScanned = 365
            /\ \A i \in 1 .. Len(scanResults) :
                   scanResults[i].dayOfYear \in 1 .. daysScanned
            /\ \A i \in 1 .. (Len(scanResults) - 1) :
                   scanResults[i].dayOfYear < scanResults[i + 1].dayOfYear

\* The scans of a leap century year and of a common century year.
C16_Witness ==
    /\ Scanned
    /\ query.year = 2000
    /\ Len(scanResults) = 366
    /\ scanResults[366].dayOfYear = 366
    /\ \E call \in DOMAIN completedQueries : call[2][2] = 1900

-----------------------------------------------------------------------------
(* Cache (src/src/utils/cache.js): one instance of a small capacity.  The    *)
(* entries of its Map are kept in the Map's iteration order, oldest first.   *)

CacheMaxSize == 3
MaxTicks == 1

\* has(key, maxAge = 300000)
DefaultMaxAge == 300000

\* The time that passes between two looks at the clock, in milliseconds: just
\* more than the age up to which has() takes an entry.
ClockStep == DefaultMaxAge + 1

CacheKeys == {"a", "b", "c", "d"}
CacheData == {"x", "y"}

\* get(key) of a key that is not cached.
Null == "null"

\* this.cache.has(key) of the Map.
MapHas(c, key) == \E i \in 1 .. Len(c.entries) : c.entries[i].key = key

\* this.cache.get(key) of the Map.
MapGet(c, key) == c.entries[CHOOSE i \in 1 .. Len(c.entries) : c.entries[i].key = key]

\* this.cache.delete(key) of the Map.
MapDelete(entries, key) == SelectSeq(entries, LAMBDA e : e.key # key)

\* this.cache.set(key, item) of the Map: a key that is present keeps its
\* place in the iteration order, a new key goes to the end.
MapSet(entries, key, item) ==
    IF \E i \in 1 .. Len(entries) : entries[i].key = key
    THEN [i \in 1 .. Len(entries) |-> IF entries[i].key = key THEN item ELSE entries[i]]
    ELSE Append(entries, item)

\* Cache.get: the cache it leaves and the value it returns.
get(c, key) ==
    IF MapHas(c, key)
    THEN LET item == MapGet(c, key)
         IN  [cache |-> [c EXCEPT !.entries = Append(MapDelete(c.entries, key), item)],
              value |-> item.data]
    ELSE [cache |-> c, value |-> Null]

\* Cache.set: const firstKey = this.cache.keys().next().value, the key that
\* set deletes when this.cache.size >= this.maxSize (none in an empty Map).
FirstKey(c) ==
    IF Len(c.entries) >= c.maxSize /\ Len(c.entries) > 0
    THEN c.entries[1].key
    ELSE NoKey

\* Cache.set: at capacity the first key of the Map is deleted; then the Map
\* is set.
set(c, key, data, time) ==
    [c EXCEPT !.entries =
        MapSet(MapDelete(c.entries, FirstKey(c)), key,
               [key |-> key, data |-> data, timestamp |-> time])]

\* Cache.has: the cache it leaves (an expired entry is deleted) and its answer.
has(c, key, maxAge, time) ==
    IF ~MapHas(c, key)
    THEN [cache |-> c, value |-> FALSE]
    ELSE IF time - MapGet(c, key).timestamp > maxAge
         THEN [cache |-> [c EXCEPT !.entries = MapDelete(c.entries, key)],
               value |-> FALSE]
         ELSE [cache |-> c, value |-> TRUE]

\* The keys of the cache.
KeysOf(c) == {c.entries[i].key : i \in 1 .. Len(c.entries)}

\* The order of last use once a get or set of key has left the cache c.
Used(order, key, c) ==
    LET others == SelectSeq(order, LAMBDA k : k \in KeysOf(c) /\ k # key)
    IN  IF key \in KeysOf(c) THEN Append(others, key) ELSE others

CacheInit ==
    /\ pc = "cache"
    /\ AlignIdle
    /\ BatchIdle
    /\ HeatmapIdle
    /\ OsmIdle
    /\ MaximaIdle
    /\ DayIdle
    /\ FetchIdle
    /\ streetCache = NewCache(CacheMaxSize)
    /\ now = 0
    /\ useOrder = <<>>
    /\ lastSet = NoSet

\* streetCache.get(key)
CacheGet(key) ==
    /\ pc = "cache"
    /\ streetCache' = get(streetCache, key).cache
    /\ useOrder' = Used(useOrder, key, streetCache')
    /\ UNCHANGED <<pc, now, lastSet>>
    /\ UNCHANGED <<heatmapVars, alignVars, batchVars, osmVars, maximaVars, dayVars, fetchVars>>

\* The key that a step has removed from the cache, if any.
Evicted(before, after) ==
    IF KeysOf(before) \ KeysOf(after) = {}
    THEN NoKey
    ELSE CHOOSE key \in KeysOf(before) \ KeysOf(after) : TRUE

\* streetCache.set(key, data)
CacheSet(key, data) ==
    /\ pc = "cache"
    /\ streetCache' = set(streetCache, key, data, now)
    /\ useOrder' = Used(useOrder, key, streetCache')
    /\ lastSet' =
           IF Len(streetCache.entries) >= streetCache.maxSize
           THEN [atCapacity |-> TRUE,
                 evicted |-> Evicted(streetCache, streetCache'),
                 leastRecentlyUsed |-> useOrder[1]]
           ELSE NoSet
    /\ UNCHANGED <<pc, now>>
    /\ UNCHANGED <<heatmapVars, alignVars, batchVars, osmVars, maximaVars, dayVars, fetchVars>>

\* streetCache.has(key)
CacheHas(key) ==
    /\ pc = "cache"
    /\ streetCache' = has(streetCache, key, DefaultMaxAge, now).cache
    /\ useOrder' = SelectSeq(useOrder, LAMBDA k : k \in KeysOf(streetCache'))
    /\ UNCHANGED <<pc, now, lastSet>>
    /\ UNCHANGED <<heatmapVars, alignVars, batchVars, osmVars, maximaVars, dayVars, fetchVars>>

\* Time passes.
Tick ==
    /\ now < MaxTicks * ClockStep
    /\ now' = now + ClockStep
    /\ UNCHANGED <<pc, useOrder, lastSet>>
    /\ UNCHANGED <<alignVars, batchVars, osmVars, maximaVars, dayVars, fetchVars>>

CacheNext ==
    \/ \E key \in CacheKeys : CacheGet(key) \/ CacheHas(key)
    \/ \E key \in CacheKeys, data \in CacheData : CacheSet(key, data)
    \/ pc = "cache" /\ Tick /\ UNCHANGED <<streetCache, heatmapVars>>

SpecCache == CacheInit /\ [][CacheNext]_vars

\* A Cache never holds more entries than its maxSize.
CacheBounded == Len(streetCache.entries) <= streetCache.maxSize

\* C17: when Cache.set is called while the cache is at capacity, the entry it
\* evicts is the one least recently used, where a use is a get or a set.
C17_EvictsLeastRecentlyUsed ==
    (pc = "cache" /\ lastSet.atCapacity /\ lastSet.evicted # NoKey) =>
        lastSet.evicted = lastSet.leastRecentlyUsed

-----------------------------------------------------------------------------
(* The size of every cache *)

\* C18: every cache is bounded in size: the street-geometry cache and the
\* alignment-score cache (both a Cache, with its maxSize), the per-day
\* solar-azimuth cache and the optimal-day result cache never hold more
\* entries than the configured maximum.
C18_AllCachesBounded ==
    /\ Len(streetCache.entries) <= streetCache.maxSize
    /\ Cardinality(DOMAIN solarCache) <= cacheMaxSize
    /\ Cardinality(DOMAIN optimalCache) <= cacheMaxSize

-----------------------------------------------------------------------------
(* Street fetch: StreetDataManager.fetchStreetData, cancelRequest, and the   *)
(* requests in flight.  A call runs to its first await in one step; the      *)
(* answer of the network, the parsed body and the rejection of an aborted    *)
(* request each resume it in a step of their own.  The segments that         *)
(* processOsmData makes of a response are one of Payloads.                   *)

MaxCalls == 3

\* streetCache.getBoundsKey(bounds) of the bounds asked for.
BoundsKeys == {"a", "b"}

\* processOsmData(data): no segment, or the streets of the area.
NoSegments == "[]"
Payloads == {NoSegments, "streets"}

\* What a request can fail with: fetch() rejects with a TypeError (network),
\* a response that is not ok makes the call throw an Error, response.json()
\* rejects with a SyntaxError (or a TypeError when the body breaks off).
FetchErrors == {"TypeError", "Error"}
JsonErrors == {"SyntaxError", "TypeError"}

\* A call that has started a request and awaits fetch(); after is what the
\* successful fetches for its key had cached before it started.
NewCall(key, after) ==
    [key |-> key, pc |-> "fetch", aborted |-> FALSE, after |-> after,
     outcome |-> "pending", returned |-> "pending"]

\* A call answered from the cache, which starts no request.
CachedCall(key, data, after) ==
    [key |-> key, pc |-> "done", aborted |-> FALSE, after |-> after,
     outcome |-> "cached", returned |-> data]

\* The segments that the calls for key which have ended with the segments of
\* their response have cached.
CachedSoFar(cs, key) ==
    {cs[id].returned : id \in {i \in 1 .. Len(cs) :
                                  cs[i].key = key /\ cs[i].outcome = "segments"}}

\* The calls whose request is in flight.
InFlight == {id \in 1 .. Len(calls) : calls[id].pc \in {"fetch", "json"}}

\* this.abortController.abort(): the signal of the controller's request.
Abort(cs, id) ==
    IF id = 0 THEN cs ELSE [cs EXCEPT ![id].aborted = TRUE]

\* The catch block that never looks for cached data.
Catch_NoFallback(c, key, errorName) ==
    IF errorName = "AbortError"
    THEN [cache |-> c, outcome |-> "cancelled", returned |-> NoSegments]
    ELSE [cache |-> c, outcome |-> "thrown", returned |-> errorName]

\* The catch block without the case of the AbortError.
Catch_NoAbortCase(c, key, errorName) ==
    LET fallbackData == get(c, key)
    IN  IF fallbackData.value # Null
        THEN [cache |-> fallbackData.cache, outcome |-> "fallback",
              returned |-> fallbackData.value]
        ELSE [cache |-> c, outcome |-> "thrown", returned |-> errorName]

\* fetchStreetData, the catch block: [] for an AbortError; else the cached
\* data of the key when there is some; else the error is thrown.
Catch(c, key, errorName) ==
    IF errorName = "AbortError"
    THEN [cache |-> c, outcome |-> "cancelled", returned |-> NoSegments]
    ELSE LET fallbackData == get(c, key)
         IN  IF fallbackData.value # Null
             THEN [cache |-> fallbackData.cache, outcome |-> "fallback",
                   returned |-> fallbackData.value]
             ELSE [cache |-> c, outcome |-> "thrown", returned |-> errorName]

\* fetchStreetData, the end of the try block: the segments are cached and
\* returned.
Success(c, key, segs, time) ==
    [cache |-> set(c, key, segs, time), outcome |-> "segments", returned |-> segs]

FetchInit ==
    /\ pc = "streets"
    /\ AlignIdle
    /\ BatchIdle
    /\ HeatmapIdle
    /\ OsmIdle
    /\ MaximaIdle
    /\ DayIdle
    /\ CacheIdle
    /\ FetchIdle

\* The call id ends with result; the finally block resets the manager.
Finish(id, result) ==
    /\ calls' = [calls EXCEPT ![id].pc = "done",
                              ![id].outcome = result.outcome,
                              ![id].returned = result.returned]
    /\ streetCache' = result.cache
    /\ isLoading' = FALSE
    /\ abortController' = 0
    /\ UNCHANGED <<pc, now, useOrder, lastSet>>
    /\ UNCHANGED <<heatmapVars, alignVars, batchVars, osmVars, maximaVars, dayVars>>

\* fetchStreetData(bounds) up to its first await: the cache is asked; on a
\* miss the request of the current controller is aborted, a new controller
\* is made and the request is sent.
FetchStreetData(key) ==
    /\ pc = "streets"
    /\ Len(calls) < MaxCalls
    /\ LET cached == has(streetCache, key, DefaultMaxAge, now)
       IN  IF cached.value
           THEN /\ streetCache' = get(cached.cache, key).cache
                /\ calls' = Append(calls, CachedCall(key, get(cached.cache, key).value,
                                                  CachedSoFar(calls, key)))
                /\ UNCHANGED <<abortController, isLoading>>
           ELSE /\ streetCache' = cached.cache
                /\ calls' = Append(Abort(calls, abortController),
                                NewCall(key, CachedSoFar(calls, key)))
                /\ abortController' = Len(calls) + 1
                /\ isLoading' = TRUE
    /\ UNCHANGED <<pc, now, useOrder, lastSet>>
    /\ UNCHANGED <<heatmapVars, alignVars, batchVars, osmVars, maximaVars, dayVars>>

\* fetch() resolves with a response that is ok: the call awaits response.json().
ResponseOk(id) ==
    /\ pc = "streets"
    /\ id \in InFlight
    /\ calls[id].pc = "fetch"
    /\ ~calls[id].aborted
    /\ calls' = [calls EXCEPT ![id].pc = "json"]
    /\ UNCHANGED <<pc, abortController, isLoading>>
    /\ UNCHANGED cacheVars
    /\ UNCHANGED <<heatmapVars, alignVars, batchVars, osmVars, maximaVars, dayVars>>

\* fetch() rejects (network error), the response is not ok, or the body is
\* not JSON: the error goes to the catch block.
RequestFails(id, errorName) ==
    /\ pc = "streets"
    /\ id \in InFlight
    /\ ~calls[id].aborted
    /\ errorName \in (IF calls[id].pc = "fetch" THEN FetchErrors ELSE JsonErrors)
    /\ Finish(id, Catch(streetCache, calls[id].key, errorName))

\* response.json() resolves: processOsmData, streetCache.set, return segments.
BodyParsed(id, segs) ==
    /\ pc = "streets"
    /\ id \in InFlight
    /\ calls[id].pc = "json"
    /\ ~calls[id].aborted
    /\ Finish(id, Success(streetCache, calls[id].key, segs, now))

\* The awaited promise of an aborted request rejects with an AbortError.
AbortRejects(id) ==
    /\ pc = "streets"
    /\ id \in InFlight
    /\ calls[id].aborted
    /\ Finish(id, Catch(streetCache, calls[id].key, "AbortError"))

\* cancelRequest()
CancelRequest ==
    /\ pc = "streets"
    /\ calls' = Abort(calls, abortController)
    /\ UNCHANGED <<pc, abortController, isLoading>>
    /\ UNCHANGED cacheVars
    /\ UNCHANGED <<heatmapVars, alignVars, batchVars, osmVars, maximaVars, dayVars>>

FetchNext ==
    \/ \E key \in BoundsKeys : FetchStreetData(key)
    \/ \E id \in 1 .. MaxCalls :
           \/ ResponseOk(id)
           \/ \E errorName \in FetchErrors \cup JsonErrors : RequestFails(id, errorName)
           \/ AbortRejects(id)
           \/ \E segs \in Payloads : BodyParsed(id, segs)
    \/ CancelRequest
    \/ pc = "streets" /\ Tick /\ UNCHANGED <<streetCache, heatmapVars>>

SpecFetch == FetchInit /\ [][FetchNext]_vars

\* The call id, in flight and aborted, ends in this step.
CancelledCallEnds(id) ==
    id \in InFlight /\ calls[id].aborted /\ calls'[id].pc = "done"

\* The call id ends in this step with the segments of its response.
CallSucceeds(id) ==
    id \in InFlight /\ calls'[id].outcome = "segments"

\* A call for key starts in this step, after a call for key was cancelled and
\* while no call for key has ever had a response to cache.
RetryStarts(key) ==
    /\ Len(calls') = Len(calls) + 1
    /\ calls'[Len(calls')].key = key
    /\ \E id \in 1 .. Len(calls) : calls[id].key = key /\ calls[id].outcome = "cancelled"
    /\ \A id \in 1 .. Len(calls) : calls[id].key = key => calls[id].outcome # "segments"

\* C19: a fetchStreetData call whose request is cancelled while in flight
\* resolves to an empty list without throwing and leaves the street cache as
\* it is; a later fetch for the same key sends a new request and, when that
\* succeeds, caches and returns the segments of its response.
C19_CancelledFetch ==
    [][/\ \A id \in 1 .. Len(calls) :
              CancelledCallEnds(id) =>
                  /\ calls'[id].outcome = "cancelled"
                  /\ calls'[id].returned = NoSegments
                  /\ streetCache' = streetCache
       /\ \A key \in BoundsKeys :
              RetryStarts(key) =>
                  /\ calls'[Len(calls')].pc = "fetch"
                  /\ ~calls'[Len(calls')].aborted
       /\ \A id \in 1 .. Len(calls) :
              CallSucceeds(id) =>
                  /\ calls'[id].returned \in Payloads
                  /\ has(streetCache', calls[id].key, DefaultMaxAge, now').value
                  /\ get(streetCache', calls[id].key).value = calls'[id].returned
      ]_vars

\* A call was cancelled and returned the empty list; a later call for the
\* same key fetched the streets, which are now cached.
C19_Witness ==
    \E id \in 1 .. Len(calls) : \E later \in (id + 1) .. Len(calls) :
        /\ calls[id].outcome = "cancelled"
        /\ calls[id].returned = NoSegments
        /\ calls[later].key = calls[id].key
        /\ calls[later].outcome = "segments"
        /\ calls[later].returned = "streets"
        /\ get(streetCache, calls[id].key).value = "streets"

\* C20: when fetchStreetData starts a request, every earlier request of the
\* manager that is still in flight has been aborted, so at most one request
\* that is not aborted is in flight at any time.
C20_OneLiveRequest ==
    /\ \A id \in InFlight : \A later \in (id + 1) .. Len(calls) :
           calls[later].outcome # "cached" => calls[id].aborted
    /\ Cardinality({id \in InFlight : ~calls[id].aborted}) <= 1

-----------------------------------------------------------------------------
(* Street fetch: failures and the time a request may take *)

\* The call id, in flight and not aborted, ends in this step otherwise than
\* with the segments of its response: its request has failed.
FailedCallEnds(id) ==
    /\ id \in InFlight
    /\ ~calls[id].aborted
    /\ calls'[id].pc = "done"
    /\ calls'[id].outcome # "segments"

\* What a call whose request fails with errorName does, given the cache at
\* that moment: the cached data of its key is returned when the cache holds
\* some, and else the call rejects with errorName.
FallsBackOrRejects(id, errorName) ==
    IF MapHas(streetCache, calls[id].key)
    THEN /\ calls'[id].outcome = "fallback"
         /\ calls'[id].returned = MapGet(streetCache, calls[id].key).data
    ELSE /\ calls'[id].outcome = "thrown"
         /\ calls'[id].returned = errorName

requestTimeout == 25000

\* C22: the external street fetch is bounded by a fixed timeout of 25
\* seconds: a request that nobody has cancelled does not stay in flight, its
\* call pending, while more than requestTimeout passes.
C22_RequestEndsWithinTimeout ==
    [][now' - now > requestTimeout =>
           \A id \in InFlight : ~calls[id].aborted => id \notin InFlight'
      ]_vars

-----------------------------------------------------------------------------
(* Heatmap scorer (src/src/modules/heatmap.js): calculateAlignmentScores and *)
(* its memoization in calculationCache, and the helper views over a scored   *)
(* list.  Bearings and azimuths of this part are counted in units of 1/Fine  *)
(* of a degree, one decimal more than toFixed(4) keeps; 90 * alignmentScore  *)
(* is counted in the same unit.  The cache holds as many scores as a list    *)
(* has segments at most.                                                     *)

MaxScored == 2
MaxScoreCalls == 2

\* Units of an angle to the degree: 0.00001 degree each.
Fine == 100000

\* Units of an angle to one unit of the fourth decimal.
KeyStep == 10

\* Number.prototype.toFixed(4) of an angle that is not negative: the angle
\* rounded to the nearest multiple of 0.0001, written in decimal.
toFixed(angle) == ToString((angle + (KeyStep \div 2)) \div KeyStep)

\* geometry.js calculateStreetAlignment, times 90, on angles in Fine units.
calculateStreetAlignmentFine(bearing, azimuth) ==
    LET angleDiff == Abs(bearing - azimuth)
        bidirectionalDiff == Min(angleDiff, Abs(angleDiff - HalfCircle * Fine))
        normalizedDiff == Min(bidirectionalDiff, FullCircle * Fine - bidirectionalDiff)
    IN  QuarterCircle * Fine - normalizedDiff

\* `alignment_${sunAzimuth.toFixed(4)}_${segment.bearing.toFixed(4)}`
segmentCacheKey(azimuth, bearing) ==
    "alignment_" \o toFixed(azimuth) \o "_" \o toFixed(bearing)

\* The callback of segments.map: the score of one segment, from the cache when
\* the cache has its key and else computed and cached; c is the cache before.
ScoreSegment(c, segment, azimuth, time) ==
    LET key == segmentCacheKey(azimuth, segment.bearing)
        cached == has(c, key, DefaultMaxAge, time)
    IN  IF cached.value
        THEN LET hit == get(cached.cache, key)
             IN  [cache |-> hit.cache, alignmentScore |-> hit.value]
        ELSE LET score == calculateStreetAlignmentFine(segment.bearing, azimuth)
             IN  [cache |-> set(cached.cache, key, score, time),
                  alignmentScore |-> score]

\* { ...segment, alignmentScore, sunAzimuth }
Scored(segment, score, azimuth) ==
    [id |-> segment.id, bearing |-> segment.bearing,
     alignmentScore |-> score, sunAzimuth |-> azimuth]

\* segments.map(...) from segment i on: the cache it leaves and the list it
\* returns, scored being the segments mapped so far.
RECURSIVE MapSegments(_, _, _, _, _, _)
MapSegments(c, segs, i, azimuth, time, scored) ==
    IF i > Len(segs)
    THEN [cache |-> c, segments |-> scored]
    ELSE LET one == ScoreSegment(c, segs[i], azimuth, time)
         IN  MapSegments(one.cache, segs, i + 1, azimuth, time,
                         Append(scored, Scored(segs[i], one.alignmentScore, azimuth)))

\* calculateAlignmentScores(segments, sunAzimuth) on the cache c.
calculateAlignmentScores(c, segs, azimuth, time) ==
    MapSegments(c, segs, 1, azimuth, time, <<>>)

\* Bearings of street segments: 45 degrees and a bearing that rounds to
\* 45.0000; north.
FineBearings == {45 * Fine, 45 * Fine + 4, 0}

\* Sun azimuths: east, a little off east, and south-west.
FineAzimuths == {90 * Fine, 90 * Fine + 3, 225 * Fine}

\* The lists of 1 .. MaxScored segments, numbered by position.
SegmentLists ==
    UNION {{[i \in 1 .. n |-> [id |-> i, bearing |-> bs[i]]] :
                bs \in [1 .. n -> FineBearings]} : n \in 1 .. MaxScored}

\* this.alignmentThreshold = 0.1, as 90 * score in Fine units.
alignmentThreshold == 9 * Fine

\* The lower ends 0.9, 0.8, 0.6, 0.4, 0.2 of the quality bands, as 90 * score.
BandPerfect == 81 * Fine
BandExcellent == 72 * Fine
BandGood == 54 * Fine
BandFair == 36 * Fine
BandPoor == 18 * Fine

\* findBestAlignedStreets(segments, topN = 10)
DefaultTopN == 10

\* What a helper view leaves: the list of its caller and what it returns.
View(list, result) == [segments |-> list, result |-> result]

\* filterByAlignment: segments.filter(...) makes a new array.
filterByAlignment(segs, minScore) ==
    View(segs, SelectSeq(segs, LAMBDA seg : seg.alignmentScore >= minScore))

\* groupByAlignmentQuality: each segment is pushed to the array of its band.
groupByAlignmentQuality(segs) ==
    LET Band(lo, hi) ==
            SelectSeq(segs, LAMBDA seg : seg.alignmentScore >= lo /\ seg.alignmentScore < hi)
        top == QuarterCircle * Fine + 1
    IN  View(segs,
             [perfect |-> Band(BandPerfect, top),
              excellent |-> Band(BandExcellent, BandPerfect),
              good |-> Band(BandGood, BandExcellent),
              fair |-> Band(BandFair, BandGood),
              poor |-> Band(BandPoor, BandFair),
              veryPoor |-> Band(0 - top, BandPoor)])

\* The place Array.prototype.sort, which is stable, gives segment i under the
\* comparator of sortByAlignment.
AlignmentRank(segs, i, descending) ==
    LET Before(j) ==
            IF segs[j].alignmentScore = segs[i].alignmentScore
            THEN j < i
            ELSE IF descending
                 THEN segs[j].alignmentScore > segs[i].alignmentScore
                 ELSE segs[j].alignmentScore < segs[i].alignmentScore
    IN  1 + Cardinality({j \in 1 .. Len(segs) : Before(j)})

\* The variant of sortByAlignment that sorts a copy ([...segments].sort).
sortByAlignment_Copy(segs, descending) ==
    View(segs,
         [p \in 1 .. Len(segs) |->
             segs[CHOOSE i \in 1 .. Len(segs) : AlignmentRank(segs, i, descending) = p]])

\* sortByAlignment: segments.sort(...) sorts the array it is given in place
\* and returns that same array.
sortByAlignment(segs, descending) ==
    LET sorted == [p \in 1 .. Len(segs) |->
                      segs[CHOOSE i \in 1 .. Len(segs) :
                               AlignmentRank(segs, i, descending) = p]]
    IN  View(sorted, sorted)

\* findBestAlignedStreets: sortByAlignment(segments, true), then slice(0, topN).
findBestAlignedStreets(segs, topN) ==
    LET sorted == sortByAlignment(segs, TRUE)
    IN  View(sorted.segments, SubSeq(sorted.result, 1, Min(topN, Len(sorted.result))))

HeatmapInit ==
    /\ pc = "scores"
    /\ AlignIdle
    /\ BatchIdle
    /\ OsmIdle
    /\ MaximaIdle
    /\ DayIdle
    /\ FetchIdle
    /\ streetCache = NewCache(StreetCacheSize)
    /\ now = 0
    /\ useOrder = <<>>
    /\ lastSet = NoSet
    /\ calculationCache = NewCache(MaxScored)
    /\ currentSunAzimuth = <<>>
    /\ scoredSegments = <<>>
    /\ listBefore = <<>>
    /\ viewResult = NoView
    /\ scoreCalls = 0

heatmapFrame == <<streetCache, useOrder, lastSet, alignVars, batchVars, osmVars,
                  maximaVars, dayVars, fetchVars>>

\* heatmapManager.calculateAlignmentScores(segments, sunAzimuth)
CalculateAlignmentScores(segs, azimuth) ==
    /\ pc = "scores"
    /\ scoreCalls < MaxScoreCalls
    /\ \E call \in {calculateAlignmentScores(calculationCache, segs, azimuth, now)} :
           /\ calculationCache' = call.cache
           /\ scoredSegments' = call.segments
    /\ currentSunAzimuth' = <<azimuth>>
    /\ scoreCalls' = scoreCalls + 1
    /\ UNCHANGED <<pc, now, listBefore, viewResult>>
    /\ UNCHANGED heatmapFrame

\* heatmapManager.clearCache()
ClearCache ==
    /\ pc = "scores"
    /\ Len(calculationCache.entries) > 0
    /\ calculationCache' = [calculationCache EXCEPT !.entries = <<>>]
    /\ UNCHANGED <<pc, now, currentSunAzimuth, scoredSegments, listBefore,
                   viewResult, scoreCalls>>
    /\ UNCHANGED heatmapFrame

\* The caller passes the list it holds to a helper view; view is what the
\* helper leaves.
CallView(name, view) ==
    /\ pc = "scores"
    /\ Len(scoredSegments) > 0
    /\ pc' = "viewed"
    /\ listBefore' = scoredSegments
    /\ scoredSegments' = view.segments
    /\ viewResult' = [view |-> name, result |-> view.result]
    /\ UNCHANGED <<now, calculationCache, currentSunAzimuth, scoreCalls>>
    /\ UNCHANGED heatmapFrame

FilterByAlignment == CallView("filterByAlignment", filterByAlignment(scoredSegments, alignmentThreshold))

GroupByAlignmentQuality == CallView("groupByAlignmentQuality", groupByAlignmentQuality(scoredSegments))

SortByAlignment(descending) == CallView("sortByAlignment", sortByAlignment(scoredSegments, descending))

FindBestAlignedStreets(topN) == CallView("findBestAlignedStreets", findBestAlignedStreets(scoredSegments, topN))

HeatmapNext ==
    \/ \E segs \in SegmentLists, azimuth \in FineAzimuths :
           CalculateAlignmentScores(segs, azimuth)
    \/ ClearCache
    \/ FilterByAlignment
    \/ GroupByAlignmentQuality
    \/ \E descending \in BOOLEAN : SortByAlignment(descending)
    \/ \E topN \in {1, DefaultTopN} : FindBestAlignedStreets(topN)
    \/ pc = "scores" /\ Tick /\ UNCHANGED <<streetCache, heatmapVars>>

SpecHeatmap == HeatmapInit /\ [][HeatmapNext]_vars

\* The score calculateStreetAlignment computes for the bearing and the azimuth
\* of a scored segment.
FreshScore(seg) == calculateStreetAlignmentFine(seg.bearing, seg.sunAzimuth)

\* C23: memoization in calculateAlignmentScores is transparent: after any
\* earlier scoring calls, evictions and expiries, the alignmentScore of each
\* returned segment equals calculateStreetAlignment of that segment's own
\* bearing and that call's own azimuth, also when another bearing or azimuth
\* that rounds to the same cache key was scored before.
C23_MemoizationTransparent ==
    pc = "scores" =>
        \A i \in 1 .. Len(scoredSegments) :
            scoredSegments[i].alignmentScore = FreshScore(scoredSegments[i])

\* The alignmentScore of each returned segment is a score that
\* calculateStreetAlignment computed for a bearing and an azimuth that round
\* to the same four decimals as the segment's own, so that it differs from
\* the fresh score by at most 0.0002 / 90.
MemoizationWithinRounding ==
    pc = "scores" =>
        \A i \in 1 .. Len(scoredSegments) :
            Abs(scoredSegments[i].alignmentScore - FreshScore(scoredSegments[i]))
                <= 2 * KeyStep

\* C30: the helper views filterByAlignment, groupByAlignmentQuality,
\* sortByAlignment and findBestAlignedStreets never modify the list passed to
\* them: after each call the caller's list has the same elements in the same
\* order with the same alignmentScore values as before the call.
C30_ViewsLeaveListAlone ==
    pc = "viewed" => scoredSegments = listBefore

-----------------------------------------------------------------------------
(* Claims about the batches of one batchStraightSegments call *)

\* The indices of the unit segments that are constituents of batch k.
ConstituentSet(k) ==
    {batches[k].constituents[j] : j \in 1 .. Len(batches[k].constituents)}

\* C24: no unit segment is a constituent of two different batches of the same
\* polyline: the constituent index sets of the batches built in one
\* batchStraightSegments call are pairwise disjoint, and together they cover
\* every unit segment.
C24_BatchesDisjoint ==
    Batched =>
        /\ \A j \in 1 .. Len(batches) : \A k \in (j + 1) .. Len(batches) :
               ConstituentSet(j) \cap ConstituentSet(k) = {}
        /\ UNION {ConstituentSet(k) : k \in 1 .. Len(batches)} = 0 .. (Len(segments) - 1)

\* C25: the bearing of every Representative Segment differs circularly from
\* the bearing of its batch's seed by at most bearingTolerance, also when the
\* bearings of the constituents straddle the 0/360 wrap.
C25_RepresentativeBearingNearSeed ==
    Batched =>
        \A j \in 1 .. Len(batchedResults) : \A k \in 1 .. Len(batches) :
            batches[k].constituents = batchedResults[j].constituents =>
                RLe(calculateBearingDifference(batchedResults[j].bearing,
                                               SeedBearing(batches[k])),
                    FromInt(config.bearingTolerance))

-----------------------------------------------------------------------------
(* The best day of a scan *)

\* The highest bestAlignment score of the days the scan collected.
MaxScore ==
    CHOOSE s \in {ScoreOn(i) : i \in 1 .. Len(scanResults)} :
        \A i \in 1 .. Len(scanResults) : ScoreOn(i) <= s

\* C26: whenever the optimal-day scan collected at least one day, bestDay is
\* not null and its bestAlignment score is the maximum over all collected
\* days; bestDay is null only when no day was collected.  This holds also when
\* the maximum is attained on adjacent days or when all days score equally.
C26_BestDayIsGlobalMaximum ==
    pc = "result" =>
        IF Len(scanResults) = 0
        THEN optimalResult.bestDay.dayOfYear = NoDay.dayOfYear
        ELSE /\ optimalResult.bestDay.dayOfYear # NoDay.dayOfYear
             /\ Score(optimalResult.bestDay) = MaxScore

-----------------------------------------------------------------------------
(* Street fetch: the loading flag, and the fallback after a success *)

\* The calls whose request is in flight and has not been aborted.
LiveRequests == {id \in InFlight : ~calls[id].aborted}

\* C27: isLoading is true in every state in which some fetchStreetData call
\* has started a request that has neither completed nor been aborted; the
\* finally block of a cancelled older call does not reset isLoading or
\* abortController while the request of a newer call is in flight.
C27_LoadingWhileRequestInFlight ==
    LiveRequests # {} => (isLoading /\ abortController \in LiveRequests)

\* C29: once a successful fetch has cached segments for a bounds key, every
\* later fetchStreetData call for that key whose request fails, not by
\* cancellation, returns those cached segments as fallback instead of
\* throwing, regardless of how much time has passed since they were cached.
\* (The cache of 50 entries is never full here and nothing clears it.)
C29_FallbackAfterSuccess ==
    \A id \in 1 .. Len(calls) :
        (calls[id].after # {} /\ calls[id].outcome \in {"fallback", "thrown"}) =>
            /\ calls[id].outcome = "fallback"
            /\ calls[id].returned \in Payloads

-----------------------------------------------------------------------------
(* Cache.set on a key that is present *)

\* C28: Cache.set on a key that is already present only replaces that key's
\* value: it removes no other key and leaves the number of entries unchanged,
\* also when the cache is at capacity.
C28_SetExistingKeyOnlyReplaces ==
    [][\A key \in CacheKeys : \A data \in CacheData :
           (MapHas(streetCache, key) /\ CacheSet(key, data)) =>
               /\ KeysOf(streetCache') = KeysOf(streetCache)
               /\ Len(streetCache'.entries) = Len(streetCache.entries)
               /\ MapGet(streetCache', key).data = data
      ]_vars

-----------------------------------------------------------------------------
Init == AlignInit \/ BatchInit \/ OsmInit \/ MaximaInit \/ DayInit \/ CacheInit
          \/ FetchInit \/ HeatmapInit
Next == AlignNext \/ BatchNext \/ OsmNext \/ MaximaNext \/ DayNext \/ CacheNext
          \/ FetchNext \/ HeatmapNext
Spec == Init /\ [][Next]_vars
====
